---- MODULE Spec2Model ----
(***************************************************************************)
(* Model of the Bokelai (books.com.tw) metadata source plugin,             *)
(* src/__init__.py: identify, retrieve_bokelai_detail, download_cover,     *)
(* get_cached_cover_url and parse_bokelai_query_page.                      *)
(*                                                                         *)
(* Text is a sequence of tokens; a token is one character or one           *)
(* separator-free run of characters ("https", "Fiction").  An optional     *)
(* value (Python None or a value) is a sequence of length 0 or 1.          *)
(***************************************************************************)
EXTENDS Integers, Sequences, FiniteSets, TLC

VARIABLES
    web,            \* the part of the site seen so far: id -> page (static per run)
    cache,          \* host cover-URL cache: id -> optional URL
    abort,          \* the host's abort event
    pc,             \* position of the running call
    op,             \* the operation the host invoked
    request,        \* the arguments of the call: title, authors, identifiers
    candidates,     \* ids the running identify iterates over
    idx,            \* index of the next candidate
    mi,             \* the Metadata under construction in retrieve_bokelai_detail
    opened,         \* every br.open_novisit call so far: url and outcome
    result_queue,   \* the host's result sink
    rq,             \* download_cover's private Queue
    cached_url,     \* download_cover's local cached_url
    ret,            \* the value the call returned (None unless an error string)
    status,         \* "idle", "running", "returned" or "raised"
    arg,            \* input of the extraction step (extraction specifications only)
    out             \* its result

vars == << web, cache, abort, pc, op, request, candidates, idx, mi, opened,
           result_queue, rq, cached_url, ret, status, arg, out >>

-----------------------------------------------------------------------------
(* Bounds *)

MaxCands == 3        \* candidate anchors on a search page
MaxAnchors == 2      \* classification anchors on a detail page
MaxTextLen == 3      \* tokens in one anchor text
MaxNameLen == 5      \* tokens in the JSON-LD author name

-----------------------------------------------------------------------------
(* Optional values and text *)

None == << >>
Some(v) == << v >>
IsNone(o) == o = << >>
Val(o) == o[1]

\* Python truthiness of an optional string: neither None nor ''
Truthy(o) == o # << >> /\ o[1] # << >>

RECURSIVE StringsUpTo(_, _)
StringsUpTo(alphabet, n) ==
    IF n = 0 THEN { << >> }
    ELSE LET shorter == StringsUpTo(alphabet, n - 1)
         IN  shorter \cup { Append(s, c) : s \in shorter, c \in alphabet }

RECURSIVE Concat(_)
Concat(ss) == IF ss = << >> THEN << >> ELSE Head(ss) \o Concat(Tail(ss))

Contains(s, c) == \E i \in 1..Len(s) : s[i] = c

\* str.split(sep) for a one-character separator: the pieces between the
\* separators, empty pieces kept; a text without the separator is one piece
RECURSIVE Split(_, _)
Split(s, sep) ==
    IF ~Contains(s, sep) THEN << s >>
    ELSE LET i == CHOOSE k \in 1..Len(s) :
                      s[k] = sep /\ \A j \in 1..(k - 1) : s[j] # sep
         IN  << SubSeq(s, 1, i - 1) >> \o Split(SubSeq(s, i + 1, Len(s)), sep)

-----------------------------------------------------------------------------
(* retrieve_bokelai_detail: the extraction rules *)

FW == "FW"          \* the full-width slash U+FF0F
SL == "/"           \* the ASCII slash

\* the pieces one classification anchor adds to tags
AnchorTags(text) ==
    (IF Contains(text, FW) THEN Split(text, FW) ELSE << >>)
    \o (IF Contains(text, SL) THEN Split(text, SL) ELSE << text >>)

RECURSIVE ExtractTags(_)
ExtractTags(anchors) ==
    IF anchors = << >> THEN << >>
    ELSE AnchorTags(Head(anchors)) \o ExtractTags(Tail(anchors))

Unknown == << "Unknown" >>

\* authors = name.split(","), replaced by the placeholder when the list is empty
ExtractAuthors(name) ==
    LET authors == Split(name, ",")
    IN  IF authors = << >> THEN << Unknown >> ELSE authors

\* parse_date of a "YYYY/MM/DD"-shaped text; a missing day comes from the
\* default (day 15); anything else raises, which is None here
Numerals == { "2020", "05", "03" }
ParseDate(text) ==
    IF Len(text) = 5 /\ text[2] = SL /\ text[4] = SL
       /\ { text[1], text[3], text[5] } \subseteq Numerals
    THEN Some(<< text[1], text[3], text[5] >>)
    ELSE IF Len(text) = 3 /\ text[2] = SL /\ { text[1], text[3] } \subseteq Numerals
    THEN Some(<< text[1], text[3], "15" >>)
    ELSE None

\* mi.pubdate after lines 99-105: set only for a non-empty text that parses
PubDate(text) == IF text = << >> THEN None ELSE ParseDate(text)

\* re.search(r'https[^\?\=\&]*' + bokelai_id + r'[^\?\=\&]*', image):
\* the leftmost "https" whose separator-free run holds the id; the match is
\* greedy, so it extends to the end of that run
IsSep(c) == c \in { "?", "=", "&" }
RunEnd(s, p) ==
    CHOOSE q \in p..Len(s) :
        /\ \A j \in (p + 1)..q : ~IsSep(s[j])
        /\ (q = Len(s) \/ IsSep(s[q + 1]))
HoldsId(s, lo, hi, id) ==
    \E k \in lo..(hi - Len(id) + 1) : SubSeq(s, k, k + Len(id) - 1) = id
MatchAt(s, p, id) == s[p] = "https" /\ HoldsId(s, p + 1, RunEnd(s, p), id)
ReSearch(bokelai_id, image) ==
    IF \E p \in 1..Len(image) : MatchAt(image, p, bokelai_id)
    THEN LET p == CHOOSE k \in 1..Len(image) :
                      /\ MatchAt(image, k, bokelai_id)
                      /\ \A j \in 1..(k - 1) : ~MatchAt(image, j, bokelai_id)
         IN  Some(SubSeq(image, p, RunEnd(image, p)))
    ELSE None

\* NewMetadata with the page's ISBN stored under 'bokelai'
NewMetadataIsbnAsId(bokelai_id, page, cover_url) ==
    [ title |-> page.name,
      authors |-> ExtractAuthors(Val(page.author)),
      identifiers |-> [ bokelai |-> page.isbn, isbn |-> page.isbn ],
      tags |-> ExtractTags(page.anchors),
      pubdate |-> PubDate(page.datePublished),
      has_bokelai_cover |-> cover_url ]

\* the Metadata built at lines 93-112
NewMetadata(bokelai_id, page, cover_url) ==
    [ title |-> page.name,
      authors |-> ExtractAuthors(Val(page.author)),
      identifiers |-> [ bokelai |-> bokelai_id, isbn |-> page.isbn ],
      tags |-> ExtractTags(page.anchors),
      pubdate |-> PubDate(page.datePublished),
      has_bokelai_cover |-> cover_url ]

Raise == [ kind |-> "raise" ]

\* lines 57-112 on a fetched page: the record to emit, or an exception that
\* leaves retrieve_bokelai_detail (no JSON-LD script: IndexError at line 59;
\* no author: KeyError at line 65; no match: .group(0) on None at line 86)
ParseDetail(bokelai_id, page) ==
    IF ~page.jsonld THEN Raise
    ELSE IF IsNone(page.author) THEN Raise
    ELSE LET m == ReSearch(bokelai_id, page.image)
         IN  IF IsNone(m) THEN Raise
             ELSE [ kind |-> "ok", mi |-> NewMetadata(bokelai_id, page, m) ]

\* RetrieveOutcome without the try/except around the fetch
RetrieveOutcomeUncaught(ok, bokelai_id, page) ==
    IF ~ok THEN Raise ELSE ParseDetail(bokelai_id, page)

\* retrieve_bokelai_detail up to line 105 for one fetch outcome: a failed
\* fetch is caught at lines 53-55 (logged, plain return), a fetched page is
\* parsed
RetrieveOutcome(ok, bokelai_id, page) ==
    IF ~ok THEN [ kind |-> "skip" ] ELSE ParseDetail(bokelai_id, page)

-----------------------------------------------------------------------------
(* The site, the requests and the URLs *)

SiteIds == { << "a" >>, << "b" >> }

BOKELAI_DETAIL_URL(id) == << "products" >> \o id
BOKELAI_QUERY_URL(key) == << "key" >> \o key

\* the image text of a product page whose picture is served through the
\* image proxy: the proxy URL first, the picture URL as its i= parameter
ProxyImage(id) ==
    << "https", "getImage", "?", "i", "=", "https", "img" >> \o id
        \o << ".jpg", "&", "w", "=", "348" >>

ExampleAnchors == << << "Fiction", FW, "Drama" >>, << "Romance" >> >>

Pages(id) ==
    { [ jsonld |-> TRUE, name |-> << "T" >>, author |-> Some(<< "A", ",", "B" >>),
        isbn |-> << "978" >>, datePublished |-> << "2020", SL, "05", SL, "03" >>,
        anchors |-> ExampleAnchors, image |-> ProxyImage(id) ],
      [ jsonld |-> TRUE, name |-> << "T" >>, author |-> Some(<< >>),
        isbn |-> << "978" >>, datePublished |-> << "soon" >>,
        anchors |-> << >>, image |-> << "https" >> \o id ],
      [ jsonld |-> TRUE, name |-> << "T" >>, author |-> Some(<< "A" >>),
        isbn |-> << "978" >>, datePublished |-> << >>,
        anchors |-> << >>, image |-> << "https", "logo", ".png" >> ],
      [ jsonld |-> FALSE, name |-> << >>, author |-> None,
        isbn |-> << >>, datePublished |-> << >>,
        anchors |-> << >>, image |-> << >> ] }

NoPage == CHOOSE p \in Pages(<< "a" >>) : ~p.jsonld

\* an anchor href of the search page, as its path segments
Href(id) == << "redirect", "move", "item" >> \o id \o << "page", "1" >>
SearchPages == StringsUpTo({ Href(id) : id \in SiteIds }, MaxCands)

\* re.search(r"(?<=item\/)[^\/]*", url).group(): the segment after "item"
BookId(url) ==
    LET i == CHOOSE k \in 1..Len(url) :
                 url[k] = "item" /\ \A j \in 1..(k - 1) : url[j] # "item"
    IN  << url[i + 1] >>

RECURSIVE parse_bokelai_query_page(_)
parse_bokelai_query_page(raw) ==
    IF raw = << >> THEN << >>
    ELSE << BookId(Head(raw)) >> \o parse_bokelai_query_page(Tail(raw))

Request(title, authors, bokelai, isbn) ==
    [ title |-> title, authors |-> authors,
      identifiers |-> [ bokelai |-> bokelai, isbn |-> isbn ] ]

Requests ==
    { Request(Some(<< "t" >>), Some(<< << "u" >>, << "v" >> >>), Some(<< "a" >>), Some(<< "i" >>)),
      Request(None, None, Some(<< "b" >>), None),
      Request(Some(<< "t" >>), Some(<< << "u" >>, << "v" >> >>), Some(<< >>), Some(<< "i" >>)),
      Request(Some(<< "t" >>), Some(<< << "u" >> >>), None, Some(<< "i" >>)),
      Request(Some(<< "t" >>), Some(<< << "u" >>, << "v" >> >>), None, Some(<< >>)),
      Request(Some(<< "t" >>), None, None, None),
      Request(None, Some(<< << "u" >>, << "v" >> >>), None, None),
      Request(Some(<< >>), Some(<< >>), None, None) }

\* IdentifyPath with the ISBN looked at before the site id
IdentifyPathIsbnFirst(identifiers) ==
    IF Truthy(identifiers.isbn) THEN "isbn"
    ELSE IF Truthy(identifiers.bokelai) THEN "detail"
    ELSE "title"

\* lines 179-198: which branch identify takes
IdentifyPath(identifiers) ==
    IF Truthy(identifiers.bokelai) THEN "detail"
    ELSE IF Truthy(identifiers.isbn) THEN "isbn"
    ELSE "title"

\* lines 192-197: title, then every author, nothing in between
SearchStr(title, authors) ==
    (IF Truthy(title) THEN Val(title) ELSE << >>)
    \o (IF authors # None /\ Val(authors) # << >> THEN Concat(Val(authors)) ELSE << >>)

\* lines 186-198
SearchUrl(r) ==
    IF IdentifyPath(r.identifiers) = "isbn"
    THEN BOKELAI_QUERY_URL(Val(r.identifiers.isbn))
    ELSE BOKELAI_QUERY_URL(SearchStr(r.title, r.authors))

\* line 205: as_unicode(e)
TransportError == << "URLError" >>
\* a failed search fetch handled like a failed detail fetch: plain return
SearchFailureSwallowed == None

\* line 205: what identify returns when the search fetch failed
SearchFailureResult == Some(TransportError)

\* lines 213-214, `if abort.is_set: pass`: whether the loop stops here.
\* is_set is not called (a bound method is true) and the body is pass.
AbortStopsLoop(is_set) == FALSE

\* the host's cached_identifier_to_cover_url
cached_identifier_to_cover_url(id) ==
    IF id \in DOMAIN cache THEN cache[id] ELSE None

\* lines 169-174
get_cached_cover_url(identifiers) ==
    IF identifiers.bokelai # None
    THEN cached_identifier_to_cover_url(Val(identifiers.bokelai))
    ELSE None

\* CacheAfter without the call of cache_identifier_to_cover_url
CacheAfterNoWrite(m) == cache

\* lines 107-112: the cache after the cover check of a record
CacheAfter(m) ==
    IF m.has_bokelai_cover # None
    THEN [ cache EXCEPT ![m.identifiers.bokelai] = m.has_bokelai_cover ]
    ELSE cache

\* what br.open_novisit(cached_url).read() can do: fail, or give bytes
CoverFetches ==
    { [ ok |-> FALSE, cdata |-> << >> ],
      [ ok |-> TRUE, cdata |-> << >> ],
      [ ok |-> TRUE, cdata |-> << "jpeg" >> ] }

\* CoverPuts without the `if cdata` of line 164
CoverPutsUnchecked(fetch) ==
    IF fetch.ok THEN << [ adapter |-> "Bokelai", cdata |-> fetch.cdata ] >> ELSE << >>

\* lines 162-167: what the image fetch puts on the result queue
CoverPuts(fetch) ==
    IF fetch.ok /\ fetch.cdata # << >>
    THEN << [ adapter |-> "Bokelai", cdata |-> fetch.cdata ] >>
    ELSE << >>

\* lines 150-153: the first record, in ranked order, with a cached cover URL
RECURSIVE FirstCached(_)
FirstCached(results) ==
    IF results = << >> THEN None
    ELSE IF get_cached_cover_url([ bokelai |-> Some(Head(results).identifiers.bokelai) ]) # None
    THEN get_cached_cover_url([ bokelai |-> Some(Head(results).identifiers.bokelai) ])
    ELSE FirstCached(Tail(results))

\* the orders results.sort(key=identify_results_keygen(...)) can produce
Rankings(results) ==
    { [ i \in 1..Len(results) |-> results[f[i]] ] :
        f \in { g \in [ 1..Len(results) -> 1..Len(results) ] :
                    \A i, j \in 1..Len(results) : i # j => g[i] # g[j] } }

-----------------------------------------------------------------------------
(* The calls *)

\* a cover URL the host cached in an earlier session
OldCover(id) == << "https", "old" >> \o id

\* nothing called yet, nothing fetched, nothing emitted
Quiescent ==
    /\ web = [ id \in SiteIds |-> None ]
    /\ abort = FALSE
    /\ op = "none"
    /\ request = Request(None, None, None, None)
    /\ candidates = << >>
    /\ idx = 1
    /\ mi = None
    /\ opened = << >>
    /\ result_queue = << >>
    /\ rq = << >>
    /\ cached_url = None
    /\ ret = None
    /\ status = "idle"
    /\ out = << >>

Init ==
    /\ Quiescent
    /\ cache \in { c \in [ SiteIds -> { None } \cup { Some(OldCover(id)) : id \in SiteIds } ] :
                       \A id \in SiteIds : c[id] \in { None, Some(OldCover(id)) } }
    /\ pc = "idle"
    /\ arg = << >>

\* the host invokes identify or download_cover with its arguments
HostCall ==
    /\ pc = "idle"
    /\ \E o \in { "identify", "download_cover" }, r \in Requests :
           /\ op' = o
           /\ request' = r
           /\ pc' = o
    /\ status' = "running"
    /\ UNCHANGED << web, cache, abort, candidates, idx, mi, opened, result_queue,
                    rq, cached_url, ret, arg, out >>

\* the host sets the abort event, at any moment of a call
SetAbort ==
    /\ ~abort
    /\ status \in { "idle", "running" }
    /\ abort' = TRUE
    /\ UNCHANGED << web, cache, pc, op, request, candidates, idx, mi, opened,
                    result_queue, rq, cached_url, ret, status, arg, out >>

\* identify returns v: to the host, or to download_cover at line 138, which
\* drops the value
IdentifyReturns(v) ==
    IF op = "identify"
    THEN pc' = "done" /\ status' = "returned" /\ ret' = v
    ELSE pc' = "dc_scan" /\ UNCHANGED << status, ret >>

\* an exception leaves identify; download_cover does not catch it either
IdentifyRaises == pc' = "done" /\ status' = "raised" /\ UNCHANGED ret

\* the next candidate, or the end of the loop at line 215
Advance ==
    /\ idx' = idx + 1
    /\ IF idx < Len(candidates)
       THEN pc' = "loop" /\ UNCHANGED << status, ret >>
       ELSE IdentifyReturns(None)

\* identify, lines 176-210: the branch, the search fetch, the candidate list
Identify ==
    /\ pc = "identify"
    /\ IF IdentifyPath(request.identifiers) = "detail"
       THEN /\ candidates' = << Val(request.identifiers.bokelai) >>
            /\ pc' = "loop"
            /\ UNCHANGED << opened, status, ret >>
       ELSE \E ok \in BOOLEAN :
              /\ opened' = Append(opened, [ url |-> SearchUrl(request), ok |-> ok ])
              /\ IF ~ok
                 THEN /\ IdentifyReturns(SearchFailureResult)
                      /\ UNCHANGED candidates
                 ELSE \E raw \in SearchPages :
                        /\ candidates' = parse_bokelai_query_page(raw)
                        /\ IF candidates' = << >>
                           THEN IdentifyReturns(None)
                           ELSE pc' = "loop" /\ UNCHANGED << status, ret >>
    /\ idx' = 1
    /\ UNCHANGED << web, cache, abort, op, request, mi, result_queue, rq,
                    cached_url, arg, out >>

\* one candidate: the abort poll of lines 213-214, then
\* retrieve_bokelai_detail, lines 44-105 (for a site id given in the
\* identifiers, lines 180-183: the same retrieval, no poll)
Retrieve ==
    /\ pc = "loop"
    /\ idx <= Len(candidates)
    /\ IF IdentifyPath(request.identifiers) # "detail" /\ AbortStopsLoop(abort)
       THEN /\ IdentifyReturns(None)
            /\ UNCHANGED << web, opened, mi, idx >>
       ELSE LET bid == candidates[idx] IN
            \E ok \in BOOLEAN :
            \E page \in IF ~ok THEN { NoPage }
                        ELSE IF bid \in DOMAIN web /\ web[bid] # None THEN { Val(web[bid]) }
                        ELSE Pages(bid) :
              /\ opened' = Append(opened, [ url |-> BOKELAI_DETAIL_URL(bid), ok |-> ok ])
              /\ web' = IF ok /\ bid \in DOMAIN web
                        THEN [ web EXCEPT ![bid] = Some(page) ] ELSE web
              /\ LET r == RetrieveOutcome(ok, bid, page) IN
                 CASE r.kind = "skip" -> Advance /\ UNCHANGED mi
                   [] r.kind = "raise" -> IdentifyRaises /\ UNCHANGED << mi, idx >>
                   [] r.kind = "ok" ->
                        /\ mi' = Some(r.mi)
                        /\ pc' = "rd_cache"
                        /\ UNCHANGED << idx, status, ret >>
    /\ UNCHANGED << cache, abort, op, request, candidates, result_queue, rq,
                    cached_url, arg, out >>

\* retrieve_bokelai_detail, lines 107-112: the cover URL goes to the cache
CacheCover ==
    /\ pc = "rd_cache"
    /\ cache' = CacheAfter(Val(mi))
    /\ pc' = "rd_put"
    /\ UNCHANGED << web, abort, op, request, candidates, idx, mi, opened,
                    result_queue, rq, cached_url, ret, status, arg, out >>

\* retrieve_bokelai_detail, line 114: result_queue.put(mi); the queue is the
\* host's for identify and the private one for download_cover
Put ==
    /\ pc = "rd_put"
    /\ IF op = "identify"
       THEN result_queue' = Append(result_queue, Val(mi)) /\ UNCHANGED rq
       ELSE rq' = Append(rq, Val(mi)) /\ UNCHANGED result_queue
    /\ mi' = None
    /\ Advance
    /\ UNCHANGED << web, cache, abort, op, request, candidates, opened,
                    cached_url, arg, out >>

\* download_cover, lines 132-137: the cache lookup, the fallback identify
DownloadCover ==
    /\ pc = "download_cover"
    /\ cached_url' = get_cached_cover_url(request.identifiers)
    /\ pc' = IF cached_url' = None THEN "identify" ELSE "dc_fetch"
    /\ rq' = << >>
    /\ UNCHANGED << web, cache, abort, op, request, candidates, idx, mi, opened,
                    result_queue, ret, status, arg, out >>

\* download_cover, lines 138-153: the abort check, the drain, the ranking and
\* the scan for a cached cover URL
RankedScan ==
    /\ pc = "dc_scan"
    /\ IF abort
       THEN /\ pc' = "done" /\ status' = "returned"
            /\ UNCHANGED << rq, cached_url >>
       ELSE \E results \in Rankings(rq) :
              /\ cached_url' = FirstCached(results)
              /\ rq' = << >>
              /\ pc' = "dc_fetch"
              /\ UNCHANGED status
    /\ UNCHANGED << web, cache, abort, op, request, candidates, idx, mi, opened,
                    result_queue, ret, arg, out >>

\* download_cover, lines 154-167: the two early returns, the image fetch
FetchCover ==
    /\ pc = "dc_fetch"
    /\ IF cached_url = None \/ abort
       THEN UNCHANGED << opened, result_queue >>
       ELSE \E fetch \in CoverFetches :
              /\ opened' = Append(opened, [ url |-> Val(cached_url), ok |-> fetch.ok,
                                             cdata |-> fetch.cdata ])
              /\ result_queue' = result_queue \o CoverPuts(fetch)
    /\ pc' = "done"
    /\ status' = "returned"
    /\ UNCHANGED << web, cache, abort, op, request, candidates, idx, mi, rq,
                    cached_url, ret, arg, out >>

Next ==
    \/ HostCall
    \/ SetAbort
    \/ Identify
    \/ Retrieve
    \/ CacheCover
    \/ Put
    \/ DownloadCover
    \/ RankedScan
    \/ FetchCover

Spec == Init /\ [][Next]_vars

-----------------------------------------------------------------------------
(* The extraction rules on their own: retrieve_bokelai_detail, lines 57-112,
   applied to one fetched page whose classification anchors, or whose author
   field, is drawn from a bounded set *)

TextTokens == { "Fiction", FW, SL }
AnchorTexts ==
    (StringsUpTo(TextTokens, MaxTextLen) \ { << >> })
    \cup { ExampleAnchors[i] : i \in 1..Len(ExampleAnchors) }
AnchorLists == StringsUpTo(AnchorTexts, MaxAnchors)

NameTokens == { "A", "B", "C", "," }
AuthorFields == { None } \cup { Some(n) : n \in StringsUpTo(NameTokens, MaxNameLen) }

TestId == << "a" >>
TestPage ==
    [ jsonld |-> TRUE, name |-> << "T" >>, author |-> Some(<< "A" >>),
      isbn |-> << "978" >>, datePublished |-> << "2020", SL, "05" >>,
      anchors |-> << >>, image |-> ProxyImage(TestId) ]

InitTags ==
    /\ Quiescent
    /\ cache = [ id \in SiteIds |-> None ]
    /\ pc = "tags"
    /\ arg \in AnchorLists

InitAuthors ==
    /\ Quiescent
    /\ cache = [ id \in SiteIds |-> None ]
    /\ pc = "authors"
    /\ arg \in AuthorFields

ParseAnchors ==
    /\ pc = "tags"
    /\ out' = ParseDetail(TestId, [ TestPage EXCEPT !.anchors = arg ])
    /\ pc' = "parsed"
    /\ UNCHANGED << web, cache, abort, op, request, candidates, idx, mi, opened,
                    result_queue, rq, cached_url, ret, status, arg >>

ParseAuthor ==
    /\ pc = "authors"
    /\ out' = ParseDetail(TestId, [ TestPage EXCEPT !.author = arg ])
    /\ pc' = "parsed"
    /\ UNCHANGED << web, cache, abort, op, request, candidates, idx, mi, opened,
                    result_queue, rq, cached_url, ret, status, arg >>

SpecTags == InitTags /\ [][ParseAnchors]_vars

SpecAuthors == InitAuthors /\ [][ParseAuthor]_vars

-----------------------------------------------------------------------------
(* What the properties speak of *)

IsDetailOpen(e) == e.url[1] = "products"
IsSearchOpen(e) == e.url[1] = "key"
DetailOpens == SelectSeq(opened, IsDetailOpen)
SearchOpens == SelectSeq(opened, IsSearchOpen)
OpenedId(e) == Tail(e.url)

\* the sink the running identify puts its records on
Sink == IF op = "identify" THEN result_queue ELSE rq

\* identify has taken its branch, and its records are still on the sink
IdentifyBegan ==
    \/ op = "identify" /\ pc # "identify"
    \/ op = "download_cover" /\ pc \in { "loop", "rd_cache", "rd_put", "dc_scan" }

\* a non-empty value under the key
Present(o) == o # None /\ Val(o) # << >>

RECURSIVE IsSubsequence(_, _)
IsSubsequence(a, b) ==
    IF a = << >> THEN TRUE
    ELSE IF b = << >> THEN FALSE
    ELSE IF Head(a) = Head(b) THEN IsSubsequence(Tail(a), Tail(b))
    ELSE IsSubsequence(a, Tail(b))

SinkIds == [ i \in 1..Len(Sink) |-> Sink[i].identifiers.bokelai ]

-----------------------------------------------------------------------------
(* Properties *)

\* C1: identify takes the first branch that applies.  With a site id (a
\* non-empty 'bokelai' value) in the identifiers it retrieves exactly that id
\* and opens no search URL; otherwise with an ISBN the one search URL opened
\* is built from the ISBN; otherwise it is built from the title followed by
\* all author names, nothing in between.
C1_PathOrder ==
    IdentifyBegan =>
        LET ids == request.identifiers
            titleText == IF request.title = None THEN << >> ELSE Val(request.title)
            authorText == IF request.authors = None THEN << >> ELSE Concat(Val(request.authors))
        IN  IF Present(ids.bokelai)
            THEN /\ SearchOpens = << >>
                 /\ candidates = << Val(ids.bokelai) >>
                 /\ Len(DetailOpens) <= 1
                 /\ pc # "loop" => Len(DetailOpens) = 1
                 /\ \A k \in 1..Len(DetailOpens) :
                        DetailOpens[k].url = << "products" >> \o Val(ids.bokelai)
            ELSE /\ Len(SearchOpens) = 1
                 /\ SearchOpens[1].url =
                        IF Present(ids.isbn) THEN << "key" >> \o Val(ids.isbn)
                        ELSE << "key" >> \o titleText \o authorText

C1_Witness ==
    /\ op = "identify" /\ status = "returned"
    /\ Present(request.identifiers.bokelai) /\ Present(request.identifiers.isbn)
    /\ Len(result_queue) = 1 /\ SearchOpens = << >>

\* C2: a failed search fetch makes identify return an error string, with no
\* detail retrieval started and nothing on any sink; whenever identify
\* returns without a failed search fetch it returns None.
C2_SearchFailureReturnsError ==
    LET failed == \E k \in 1..Len(SearchOpens) : ~SearchOpens[k].ok
    IN  /\ failed => /\ DetailOpens = << >>
                     /\ result_queue = << >> /\ rq = << >> /\ mi = None
        /\ op = "identify" /\ failed => status = "returned" /\ ret # None
        /\ op = "identify" /\ status = "returned" /\ ~failed => ret = None

C2_Witness ==
    /\ op = "identify" /\ status = "returned" /\ ret # None
    /\ Len(SearchOpens) = 1 /\ ~SearchOpens[1].ok

\* C3: a failed detail fetch emits no record for its candidate and does not
\* end identify.  The emitted records are exactly those of the fetches that
\* succeeded (less the one whose parsing raised); after a failed fetch the
\* next candidate is retrieved, or the list is exhausted and identify ends
\* normally; an exception never comes from a failed fetch; and an identify
\* that ends normally has retrieved every candidate.
C3_TransportFailureSkips ==
    LET d == DetailOpens
        okIds == [ i \in 1..Len(SelectSeq(d, LAMBDA e : e.ok)) |->
                       OpenedId(SelectSeq(d, LAMBDA e : e.ok)[i]) ]
        emitted == SinkIds \o (IF mi = None THEN << >>
                               ELSE << Val(mi).identifiers.bokelai >>)
    IN  /\ \A k \in 1..Len(d) :
              /\ k <= Len(candidates) /\ OpenedId(d[k]) = candidates[k]
              /\ ~d[k].ok =>
                    \/ k < Len(d)
                    \/ k < Len(candidates) /\ pc = "loop" /\ idx = k + 1
                                           /\ status = "running"
                    \/ k = Len(candidates) /\ status # "raised"
                                           /\ pc \in { "done", "dc_scan", "dc_fetch" }
        /\ status = "raised" => d # << >> /\ d[Len(d)].ok
        /\ IdentifyBegan =>
              emitted = IF status = "raised"
                        THEN SubSeq(okIds, 1, Len(okIds) - 1) ELSE okIds
        /\ IdentifyBegan /\ pc \in { "done", "dc_scan" } /\ status # "raised"
              => Len(d) = Len(candidates)

C3_Witness ==
    /\ op = "identify" /\ status = "returned" /\ Len(candidates) = 3
    /\ Len(DetailOpens) = 3
    /\ ~DetailOpens[1].ok /\ DetailOpens[2].ok /\ DetailOpens[3].ok
    /\ SinkIds = << candidates[2], candidates[3] >>

\* C4: once abort is set, the candidate loop of identify starts no further
\* detail retrieval.
C4_AbortStopsCandidates ==
    [][ (abort /\ ~Present(request.identifiers.bokelai))
            => DetailOpens' = DetailOpens ]_vars

\* the pieces of a text split on either slash
RECURSIVE SplitOnSlashes(_)
SplitOnSlashes(text) ==
    IF \A i \in 1..Len(text) : text[i] \notin { FW, SL } THEN << text >>
    ELSE LET i == CHOOSE k \in 1..Len(text) :
                      text[k] \in { FW, SL } /\ \A j \in 1..(k - 1) : text[j] \notin { FW, SL }
         IN  << SubSeq(text, 1, i - 1) >> \o SplitOnSlashes(SubSeq(text, i + 1, Len(text)))

\* C5: the tags are the anchors' texts split on the full-width or the ASCII
\* slash, flattened in page order and nothing else: no tag holds a
\* separator, no unsplit text stands next to its pieces, and the anchors
\* "Fiction／Drama", "Romance" give Fiction, Drama, Romance.
C5_TagsSplitFlat ==
    pc = "parsed" =>
        /\ out.kind = "ok"
        /\ out.mi.tags = Concat([ i \in 1..Len(arg) |-> SplitOnSlashes(arg[i]) ])
        /\ \A i \in 1..Len(out.mi.tags) :
               ~Contains(out.mi.tags[i], FW) /\ ~Contains(out.mi.tags[i], SL)
        /\ arg = ExampleAnchors =>
               out.mi.tags = << << "Fiction" >>, << "Drama" >>, << "Romance" >> >>

\* C6: the author name "A,B,C" gives the authors A, B, C; an empty or absent
\* author field gives the single placeholder "Unknown"; the authors of an
\* emitted record are never the empty list and never one empty string.
C6_AuthorsOrUnknown ==
    pc = "parsed" =>
        /\ (arg = None \/ arg = Some(<< >>)) =>
               out.kind = "ok" /\ out.mi.authors = << Unknown >>
        /\ arg = Some(<< "A", ",", "B", ",", "C" >>) =>
               out.kind = "ok" /\ out.mi.authors = << << "A" >>, << "B" >>, << "C" >> >>
        /\ out.kind = "ok" =>
               out.mi.authors # << >> /\ out.mi.authors # << << >> >>

\* C7: the records on the sink follow the candidate list: their site ids
\* are, in order, the ids of distinct positions among the candidates
\* retrieved so far (at most one record per candidate, page order, each
\* record carrying the id it was retrieved for), so an empty candidate list
\* gives no record.
C7_RecordsFollowCandidates ==
    IdentifyBegan =>
        /\ Len(DetailOpens) <= Len(candidates)
        /\ IsSubsequence(SinkIds, SubSeq(candidates, 1, Len(DetailOpens)))
        /\ candidates = << >> => Sink = << >>

C7_Witness ==
    /\ op = "identify" /\ status = "returned" /\ Len(candidates) = 3
    /\ Len(DetailOpens) = 3 /\ ~DetailOpens[2].ok
    /\ candidates[1] # candidates[3]
    /\ SinkIds = << candidates[1], candidates[3] >>

CoverFetched == SelectSeq(opened, LAMBDA e : e.url[1] = "https")

\* C8: download_cover puts at most one cover on the result sink, and only
\* the bytes of an image fetch that began with a resolved cover URL and
\* abort not set, succeeded and gave bytes: so none when no cover URL is
\* resolved, when abort is set before the fetch, when the fetch fails or
\* when the bytes are empty.  These cases do not raise: an image fetch,
\* whatever its outcome, is followed by a normal return, and an exception
\* leaves download_cover only out of the detail parsing of its fallback
\* identify, before any cover is looked for.
C8_CoverOutput ==
    op = "download_cover" =>
        /\ Len(result_queue) <= 1
        /\ Len(CoverFetched) <= 1
        /\ result_queue # << >> =>
              /\ pc = "done" /\ status = "returned" /\ ret = None
              /\ ~abort
              /\ cached_url # None
              /\ Len(CoverFetched) = 1
              /\ CoverFetched[1].url = Val(cached_url)
              /\ CoverFetched[1].ok /\ CoverFetched[1].cdata # << >>
              /\ result_queue[1].cdata = CoverFetched[1].cdata
        /\ CoverFetched # << >> => pc = "done" /\ status = "returned" /\ ret = None
        /\ pc = "done" /\ status # "raised" => status = "returned" /\ ret = None
        /\ status = "raised" =>
              /\ IsDetailOpen(opened[Len(opened)]) /\ opened[Len(opened)].ok
              /\ pc = "done" /\ result_queue = << >>

C8_Witness ==
    /\ op = "download_cover" /\ pc = "done" /\ status = "returned"
    /\ SearchOpens # << >> /\ DetailOpens # << >>
    /\ Len(CoverFetched) = 1 /\ CoverFetched[1].ok /\ CoverFetched[1].cdata = << >>
    /\ result_queue = << >>

\* C9: a detail retrieval whose fetch succeeded on a page with a JSON-LD
\* block does not raise and emits its record, whatever the optional fields
\* hold.
C9_DetailAlwaysEmits ==
    LET d == DetailOpens
    IN  status = "raised" =>
            ~(d[Len(d)].ok /\ Val(web[OpenedId(d[Len(d)])]).jsonld)

\* C10: every record on a sink that carries a cover URL has that URL in the
\* host cache under its site id, at every moment; the ranked scan of
\* download_cover finds a cached URL for every such record.
C10_CachedBeforeEmitted ==
    IdentifyBegan =>
        \A i \in 1..Len(Sink) :
            Sink[i].has_bokelai_cover # None =>
                /\ cached_identifier_to_cover_url(Sink[i].identifiers.bokelai)
                       = Sink[i].has_bokelai_cover
                /\ get_cached_cover_url(
                       [ bokelai |-> Some(Sink[i].identifiers.bokelai) ]) # None

C10_Witness ==
    /\ op = "download_cover" /\ pc = "dc_scan" /\ Len(rq) = 2
    /\ rq[1].has_bokelai_cover # None
    /\ rq[1].identifiers.bokelai # rq[2].identifiers.bokelai

====
